---- MODULE Spec2Model ----
(***************************************************************************)
(* Catcher of the Day, weighted selection (catcher_weighted.py) and the    *)
(* stand-alone history cleanup (cleanup_selection_history.py).             *)
(*                                                                         *)
(* The persistent store is the SQLite database: the user table (mail,      *)
(* weekdays, last_chosen), the vacation table and the selection_history    *)
(* table.  Dates are kept in the store as ISO text and compared as text,   *)
(* as SQLite does; a date is a day ordinal d, its text IsoFormat(d).       *)
(* Each invocation of main() is a process that walks through the           *)
(* statements of main() and find_next_catcher_weighted().                  *)
(***************************************************************************)
EXTENDS Integers, Sequences, FiniteSets, TLC

(***************************************************************************)
(* Program constants                                                       *)
(***************************************************************************)
BASE_WEIGHT == 100
YESTERDAY_PENALTY == 50
FREQUENCY_PENALTY_MULTIPLIER == 5
LOOKBACK_DAYS == 30
CLEANUP_RETENTION_DAYS == 90
DEFAULT_RETENTION_DAYS == 90
NeverSelectedBonus == 365
max_retries == 3
initial_retry_delay == 2
LastWorkingDayWindow == 7

\* Weights are floats in the code; here they are fixed-point numbers with
\* WScale units per 1.0, so that the tie-breaker 0.1 / (i + 1) is exact
\* for groups of up to six members.
WScale == 600

(***************************************************************************)
(* Bounds of the model                                                     *)
(***************************************************************************)
NumUsers == 2
MaxRuns == 2
MaxDayAdvance == 1
MaxInitRecords == 2
MaxOffPattern == 1
MaxVacations == 1
MaxCandidates == 3

Day0 == 28 * 7 + 5     \* the first "today" of the model: a Friday
Users == 1 .. NumUsers
Procs == {1, 2}
NULL == 0              \* SQL NULL / Python None for ids and mails
NoDate == << >>        \* SQL NULL / Python None for a date text

(***************************************************************************)
(* Dates                                                                   *)
(***************************************************************************)
\* datetime.date.isoformat(): fixed-width, zero-padded, most significant
\* field first.  Modelled as the three decimal digits of the day ordinal.
IsoFormat(d) == << d \div 100, (d \div 10) % 10, d % 10 >>

\* A date text as a client may also send it: without the leading zeros
\* ("2025-12-9" for "2025-12-09")
Unpadded(d) ==
    IF d < 10 THEN << d >>
    ELSE IF d < 100 THEN << d \div 10, d % 10 >>
    ELSE IsoFormat(d)

\* datetime.strptime(s, "%Y-%m-%d").date(): the number the digits
\* denote, with or without leading zeros
RECURSIVE Strptime(_)
Strptime(s) ==
    IF s = << >> THEN 0
    ELSE 10 * Strptime(SubSeq(s, 1, Len(s) - 1)) + s[Len(s)]

\* strptime accepts the text; otherwise it raises ValueError
WellFormed(s) == Len(s) \in 1 .. 3

\* SQLite text comparison (BINARY collation): lexicographic, left to right.
RECURSIVE TextLess(_, _)
TextLess(a, b) ==
    IF a = << >> THEN b # << >>
    ELSE IF b = << >> THEN FALSE
    ELSE IF Head(a) # Head(b) THEN Head(a) < Head(b)
    ELSE TextLess(Tail(a), Tail(b))

TextLeq(a, b) == a = b \/ TextLess(a, b)

\* datetime.date.weekday(): Monday = 0 ... Sunday = 6 (ordinal 1 is a Monday)
Weekday(d) == (d + 6) % 7

\* strftime("%w"): Sunday = 0 ... Saturday = 6
StrftimeW(d) == d % 7

\* holidays.Germany(state=HOLIDAY_REGION): the static regional table.
\* In the model Day0 and the Wednesday before it are public holidays.
GermanHolidays == {Day0 - 2, Day0}

(***************************************************************************)
(* The user table columns that the daily run never writes                  *)
(***************************************************************************)
\* mail: unique, not null; a mail is modelled by its rank in alphabetical
\* order.  The order of mails is the reverse of the order of ids.
MailOf(u) == NumUsers + 1 - u

UserOfMail(m) == CHOOSE u \in Users : MailOf(u) = m


(***************************************************************************)
(* State                                                                   *)
(***************************************************************************)
VARIABLES
    today,          \* the clock: datetime.date.today() as a day ordinal
    weekdays,       \* user.weekdays: the set of digits in the column
    vacation,       \* the vacation table: rows [user_id, start_date, end_date]
    history,        \* the selection_history table in rowid order
    last_chosen,    \* user.last_chosen: ISO text or NoDate
    lock,           \* the process holding the database write lock, or 0
    pc,             \* position of each invocation of main()
    loc,            \* local variables of each invocation
    txn,            \* uncommitted writes of each connection
    pre,            \* the committed store when the invocation started
    runs,           \* number of invocations started so far
    last_result,    \* date and mail reported by the latest completed
                    \* non-dry invocation that had a catcher
    notifs,         \* one entry per call of the webhook loop of trigger_slack
    lastPrune,      \* arguments and result of the latest cleanup
    calc            \* the latest call of a function taken on its own:
                    \* its name, arguments and result

vars == << today, weekdays, vacation, history, last_chosen, lock, pc, loc,
           txn, pre, runs, last_result, notifs, lastPrune, calc >>

Store == [history |-> history, last_chosen |-> last_chosen]

(***************************************************************************)
(* Generic helpers                                                         *)
(***************************************************************************)
RECURSIVE SeqSum(_)
SeqSum(s) == IF s = << >> THEN 0 ELSE Head(s) + SeqSum(Tail(s))

(***************************************************************************)
(* Calendar gate                                                           *)
(***************************************************************************)
is_weekend(d) == Weekday(d) >= 5

ApiOutcomes == {"200", "204", "other", "exception"}

\* Variant: when both methods fail the day counts as a holiday
is_holiday_fail_closed(d, api, libOk) ==
    IF api = "200" THEN TRUE
    ELSE IF api = "204" THEN FALSE
    ELSE IF libOk THEN d \in GermanHolidays
    ELSE TRUE

\* Whether is_holiday() reaches "holidays.Germany(state=HOLIDAY_REGION)"
LibraryConsulted(api) == api \notin {"200", "204"}

\* api: what the web service did; libOk: whether the holidays library
\* could be used.
is_holiday(d, api, libOk) ==
    IF api = "200" THEN TRUE
    ELSE IF api = "204" THEN FALSE
    ELSE IF libOk THEN d \in GermanHolidays
    ELSE FALSE

(***************************************************************************)
(* Reads of the store                                                      *)
(***************************************************************************)
\* ? BETWEEN start_date AND end_date, on text
is_user_on_vacation(vac, user_id, date) ==
    Cardinality({v \in vac : /\ v.user_id = user_id
                             /\ TextLeq(v.start_date, date)
                             /\ TextLeq(date, v.end_date)}) > 0

\* app.py, check_vacation_overlap(): the three OR-ed conditions of the
\* query, compared as text; True when the query raised an exception
\* (dbOk = FALSE)
check_vacation_overlap(vac, user_id, start_date, end_date, dbOk) ==
    IF ~ dbOk THEN TRUE
    ELSE \E v \in vac :
           /\ v.user_id = user_id
           /\ \/ TextLeq(v.start_date, end_date) /\ TextLeq(start_date, v.end_date)
              \/ TextLeq(v.start_date, end_date) /\ TextLeq(start_date, v.end_date)
              \/ TextLeq(start_date, v.start_date) /\ TextLeq(v.end_date, end_date)

\* The rows of selection_history for one date, in rowid order
RowsOn(hist, date) == SelectSeq(hist, LAMBDA r : r.selected_date = date)

\* The loop over days_back = k .. 7 of get_last_working_day_catcher
RECURSIVE LastWorkingDayLoop(_, _, _, _)
LastWorkingDayLoop(hist, d, k, libOk) ==
    IF k > LastWorkingDayWindow THEN NULL
    ELSE LET check_date == d - k
             rows == RowsOn(hist, IsoFormat(check_date))
         IN  IF Weekday(check_date) >= 5
                 THEN LastWorkingDayLoop(hist, d, k + 1, libOk)
             ELSE IF libOk /\ check_date \in GermanHolidays
                 THEN LastWorkingDayLoop(hist, d, k + 1, libOk)
             ELSE IF rows # << >> THEN rows[1].user_id
             ELSE LastWorkingDayLoop(hist, d, k + 1, libOk)

\* Variant: the loop runs over days_back = 2 .. 8
get_last_working_day_catcher_shifted(hist, d, libOk, dbOk) ==
    IF dbOk THEN LastWorkingDayLoop(hist, d - 1, 1, libOk) ELSE NULL

\* dbOk = FALSE is the sqlite3.Error path, which returns None
get_last_working_day_catcher(hist, d, libOk, dbOk) ==
    IF dbOk THEN LastWorkingDayLoop(hist, d, 1, libOk) ELSE NULL

\* dbOk = FALSE is the sqlite3.Error path, which returns 0
get_recent_selection_count(hist, d, user_id, days, dbOk) ==
    IF dbOk
        THEN LET cutoff_date == IsoFormat(d - days)
             IN  Len(SelectSeq(hist, LAMBDA r :
                     /\ r.user_id = user_id
                     /\ TextLeq(cutoff_date, r.selected_date)))
        ELSE 0

(***************************************************************************)
(* Weight calculator                                                       *)
(***************************************************************************)
Max(a, b) == IF a >= b THEN a ELSE b

\* Variant: "return weight" without the clamp
calculate_user_weight_unclamped(user_id, lc, d, last_working_day_catcher_id, recent_selections, has_alternatives) ==
    LET w1 == IF lc # NoDate /\ WellFormed(lc)
                  THEN BASE_WEIGHT + (d - Strptime(lc))
                  ELSE BASE_WEIGHT + NeverSelectedBonus
        w2 == IF has_alternatives /\ last_working_day_catcher_id = user_id
                  THEN w1 - YESTERDAY_PENALTY
                  ELSE w1
    IN  w2 - recent_selections * FREQUENCY_PENALTY_MULTIPLIER

\* Variant: "weight -= days_since"
calculate_user_weight_days_subtracted(user_id, lc, d, last_working_day_catcher_id, recent_selections, has_alternatives) ==
    LET w1 == IF lc # NoDate /\ WellFormed(lc)
                  THEN BASE_WEIGHT - (d - Strptime(lc))
                  ELSE BASE_WEIGHT + NeverSelectedBonus
        w2 == IF has_alternatives /\ last_working_day_catcher_id = user_id
                  THEN w1 - YESTERDAY_PENALTY
                  ELSE w1
    IN  Max(w2 - recent_selections * FREQUENCY_PENALTY_MULTIPLIER, 1)

calculate_user_weight(user_id, lc, d, last_working_day_catcher_id, recent_selections, has_alternatives) ==
    LET w1 == IF lc # NoDate
                  THEN IF WellFormed(lc)
                           THEN BASE_WEIGHT + (d - Strptime(lc))
                           ELSE BASE_WEIGHT + NeverSelectedBonus
                  ELSE BASE_WEIGHT + NeverSelectedBonus
        w2 == IF has_alternatives /\ last_working_day_catcher_id = user_id
                  THEN w1 - YESTERDAY_PENALTY
                  ELSE w1
        w3 == w2 - recent_selections * FREQUENCY_PENALTY_MULTIPLIER
    IN  Max(w3, 1)

(***************************************************************************)
(* Tie-breaker                                                             *)
(***************************************************************************)
\* round(weight, 2) on fixed-point weights
Round2(w) == LET q == WScale \div 100 IN ((w + q \div 2) \div q) * q

\* The keys of the dict weight_groups in insertion order
RECURSIVE GroupKeys(_, _)
GroupKeys(wus, seen) ==
    IF wus = << >> THEN << >>
    ELSE LET k == Round2(Head(wus).weight)
         IN  IF k \in seen THEN GroupKeys(Tail(wus), seen)
             ELSE << k >> \o GroupKeys(Tail(wus), seen \cup {k})

\* "1900-01-01": older than every date of the model
OldestDate == IsoFormat(0)

TieKeyDate(wu) == IF wu.user.last_chosen # NoDate THEN wu.user.last_chosen
                  ELSE OldestDate

\* Variant: the sort key is the mail address alone
TieBeforeByMail(a, b) == a.user.mail < b.user.mail

TieBefore(a, b) ==
    \/ TextLess(TieKeyDate(a), TieKeyDate(b))
    \/ TieKeyDate(a) = TieKeyDate(b) /\ a.user.mail < b.user.mail

\* weighted_users.sort(key=weight, reverse=True): highest weight first
HeavierFirst(a, b) == a.weight > b.weight

\* The two orders the code sorts by
KeyBefore(kind, a, b) ==
    IF kind = "tie" THEN TieBefore(a, b) ELSE HeavierFirst(a, b)

\* sorted / list.sort: a stable sort
RECURSIVE InsertSorted(_, _, _)
InsertSorted(x, s, kind) ==
    IF s = << >> THEN << x >>
    ELSE IF ~ KeyBefore(kind, Head(s), x) THEN << x >> \o s
    ELSE << Head(s) >> \o InsertSorted(x, Tail(s), kind)

RECURSIVE StableSort(_, _)
StableSort(s, kind) ==
    IF s = << >> THEN << >>
    ELSE InsertSorted(Head(s), StableSort(Tail(s), kind), kind)

\* Variant: tie_breaker = 10 / (i + 1)
TieBonusTen(i) == (WScale * 10) \div (i + 1)

\* 0.1 / (i + 1) for the 0-based rank i
TieBonus(i) == (WScale \div 10) \div (i + 1)

TieBroken(users_sorted) ==
    [i \in 1 .. Len(users_sorted) |->
        [users_sorted[i] EXCEPT !.weight = @ + TieBonus(i - 1),
                                !.tie_breaker_applied = TieBonus(i - 1)]]

RECURSIVE TieGroups(_, _)
TieGroups(wus, keys) ==
    IF keys = << >> THEN << >>
    ELSE LET users == SelectSeq(wus, LAMBDA wu : Round2(wu.weight) = Head(keys))
             part == IF Len(users) = 1 THEN users
                     ELSE TieBroken(StableSort(users, "tie"))
         IN  part \o TieGroups(wus, Tail(keys))

add_tie_breaking_logic(wus) == TieGroups(wus, GroupKeys(wus, {}))

(***************************************************************************)
(* Weighted selector                                                       *)
(***************************************************************************)
Weights(wus) == [i \in 1 .. Len(wus) |-> wus[i].weight]

Cumulative(wus, i) == SeqSum(SubSeq(Weights(wus), 1, i))

\* Variant: the guard against an empty list also rejects a single
\* candidate ("if len(weighted_users) <= 1: raise ValueError")
weighted_random_selection_no_single(wus, rand_val, pick) ==
    IF Len(wus) = 1 THEN [id |-> NULL, mail |-> NULL, last_chosen |-> NoDate]
    ELSE IF SeqSum(Weights(wus)) <= 0 THEN wus[pick].user
    ELSE IF \E i \in 1 .. Len(wus) : rand_val <= Cumulative(wus, i)
        THEN wus[CHOOSE i \in 1 .. Len(wus) :
                    /\ rand_val <= Cumulative(wus, i)
                    /\ \A j \in 1 .. (i - 1) : rand_val > Cumulative(wus, j)].user
    ELSE wus[Len(wus)].user

\* Variant: "if rand_val < cumulative"
weighted_random_selection_strict(wus, rand_val, pick) ==
    IF Len(wus) = 1 THEN wus[1].user
    ELSE IF SeqSum(Weights(wus)) <= 0 THEN wus[pick].user
    ELSE IF \E i \in 1 .. Len(wus) : rand_val < Cumulative(wus, i)
        THEN wus[CHOOSE i \in 1 .. Len(wus) :
                    /\ rand_val < Cumulative(wus, i)
                    /\ \A j \in 1 .. (i - 1) : rand_val >= Cumulative(wus, j)].user
    ELSE wus[Len(wus)].user

\* rand_val is the value of random.uniform(0, total_weight); pick is the
\* index random.choice would take
weighted_random_selection_improved(wus, rand_val, pick) ==
    IF Len(wus) = 1 THEN wus[1].user
    ELSE IF SeqSum(Weights(wus)) <= 0 THEN wus[pick].user
    ELSE IF \E i \in 1 .. Len(wus) : rand_val <= Cumulative(wus, i)
        THEN wus[CHOOSE i \in 1 .. Len(wus) :
                    /\ rand_val <= Cumulative(wus, i)
                    /\ \A j \in 1 .. (i - 1) : rand_val > Cumulative(wus, j)].user
    ELSE wus[Len(wus)].user

\* Which function of the random module the selector calls
RandomCall(wus) ==
    IF Len(wus) = 1 THEN "none"
    ELSE IF SeqSum(Weights(wus)) <= 0 THEN "choice"
    ELSE "uniform"

\* The sampled values of random.uniform(0, total_weight): 0, every
\* cumulative weight, and the value just above each cumulative weight
Draws(wus) ==
    {0} \cup {Cumulative(wus, i) : i \in 1 .. Len(wus)}
        \cup {Cumulative(wus, i) + 1 : i \in 1 .. (Len(wus) - 1)}

(***************************************************************************)
(* Initial states                                                          *)
(***************************************************************************)
\* weekdays columns: "1,2,3,4,5" for most users, "0,1,2,3,4" for at most
\* MaxOffPattern of them
WorkWeek == {1, 2, 3, 4, 5}
OffPattern == {0, 1, 2, 3, 4}

MaskAssignments ==
    { [u \in Users |-> IF u \in S THEN OffPattern ELSE WorkWeek] :
        S \in {T \in SUBSET Users : Cardinality(T) <= MaxOffPattern} }

\* Vacation ranges around Day0: ending the day before, ending on Day0,
\* starting on Day0
VacationRanges ==
    { [start_date |-> IsoFormat(Day0 - 2), end_date |-> IsoFormat(Day0 - 1)],
      [start_date |-> IsoFormat(Day0 - 1), end_date |-> IsoFormat(Day0)],
      [start_date |-> IsoFormat(Day0), end_date |-> IsoFormat(Day0 + 1)] }

VacationRows ==
    { [user_id |-> u, start_date |-> v.start_date, end_date |-> v.end_date] :
        u \in Users, v \in VacationRanges }

VacationTables ==
    { T \in SUBSET VacationRows : Cardinality(T) <= MaxVacations }

\* The vacation tables of the daily-run specification: nobody on
\* vacation, or user 1 on vacation until Day0
RunVacationTables ==
    { {},
      {[user_id |-> 1, start_date |-> IsoFormat(Day0 - 1),
        end_date |-> IsoFormat(Day0)]} }

\* Dates of the selections made before the model starts
InitDates == { Day0 - CLEANUP_RETENTION_DAYS - 1, Day0 - 1, Day0 }

\* The same around the two cut-off dates of pruning
PruneInitDates == { Day0 - CLEANUP_RETENTION_DAYS - 1,
                    Day0 - CLEANUP_RETENTION_DAYS,
                    Day0 - LOOKBACK_DAYS }

Row(user_id, d) == [user_id |-> user_id, selected_date |-> IsoFormat(d)]

\* Histories written by earlier daily runs: ascending dates, one row a day
RECURSIVE HistoriesFrom(_, _)
HistoriesFrom(dates, n) ==
    IF n = 0 \/ dates = {} THEN { << >> }
    ELSE { << >> } \cup
         UNION { { << Row(u, d) >> \o h :
                     u \in Users,
                     h \in HistoriesFrom({e \in dates : e > d}, n - 1) } :
                 d \in dates }

InitHistories == HistoriesFrom(InitDates, MaxInitRecords)

\* user.last_chosen after those runs: the date of the user's newest row
RECURSIVE NewestOf(_, _)
NewestOf(hist, u) ==
    IF hist = << >> THEN NoDate
    ELSE IF hist[Len(hist)].user_id = u THEN hist[Len(hist)].selected_date
    ELSE NewestOf(SubSeq(hist, 1, Len(hist) - 1), u)

NoRow == [id |-> NULL, mail |-> NULL, last_chosen |-> NoDate]

LocInit == [dry_run |-> FALSE, holiday |-> FALSE, called |-> FALSE,
            mail |-> NULL, is_new_selection |-> FALSE,
            available_users |-> << >>,
            selected_user |-> NoRow, drew |-> FALSE,
            attempt |-> 0, posts |-> 0, success |-> FALSE,
            outcome |-> "running"]

EmptyTxn == [ins |-> << >>, upd |-> << >>]

NoPrune == [days |-> 0, deleted |-> 0]

NoResult == [date |-> 0, mail |-> NULL]

\* No function has been called on its own
NoCalc == [fn |-> "none"]

\* The snapshot of a process that is not running
NoStore == [history |-> << >>, last_chosen |-> [u \in Users |-> NoDate]]

InitRest ==
    /\ today = Day0
    /\ last_chosen = [u \in Users |-> NewestOf(history, u)]
    /\ lock = 0
    /\ pc = [p \in Procs |-> "idle"]
    /\ loc = [p \in Procs |-> LocInit]
    /\ txn = [p \in Procs |-> EmptyTxn]
    /\ pre = [p \in Procs |-> NoStore]
    /\ runs = 0
    /\ last_result = NoResult
    /\ notifs = << >>
    /\ lastPrune = NoPrune
    /\ calc = NoCalc

\* Daily runs: everybody working Monday to Friday
Init ==
    /\ weekdays = [u \in Users |-> WorkWeek]
    /\ vacation \in RunVacationTables
    /\ history \in InitHistories
    /\ InitRest

\* Eligibility: every assignment of weekday masks and vacation rows
InitElig ==
    /\ weekdays \in MaskAssignments
    /\ vacation \in VacationTables
    /\ history \in HistoriesFrom({Day0}, 1)
    /\ InitRest

\* Stores with at most yesterday's selection, nobody on vacation
InitRenotify ==
    /\ weekdays = [u \in Users |-> WorkWeek]
    /\ vacation = {}
    /\ history \in HistoriesFrom({Day0 - 1}, 1)
    /\ InitRest

\* Stores with old history, everybody working Monday to Friday
InitPrune ==
    /\ weekdays = [u \in Users |-> WorkWeek]
    /\ vacation = {}
    /\ history \in HistoriesFrom(PruneInitDates, MaxInitRecords)
    /\ InitRest

\* Stores of the last two days, everybody working Monday to Friday
InitConc ==
    /\ weekdays = [u \in Users |-> WorkWeek]
    /\ vacation = {}
    /\ history \in HistoriesFrom({Day0 - 1, Day0}, 1)
    /\ InitRest

(***************************************************************************)
(* main() and find_next_catcher_weighted(), statement by statement         *)
(***************************************************************************)
StoreVars == << history, last_chosen, lock, txn >>
TableVars == << weekdays, vacation >>

\* return <mail>, <is_new_selection> from find_next_catcher_weighted
Return(p, m, new, out) ==
    /\ pc' = [pc EXCEPT ![p] = "main"]
    /\ loc' = [loc EXCEPT ![p].mail = m,
                          ![p].is_new_selection = new,
                          ![p].outcome = out]

\* leaving the "with" block by sqlite3.Error: rollback, return None, False
Rollback(p) ==
    /\ txn' = [txn EXCEPT ![p] = EmptyTxn]
    /\ lock' = IF lock = p THEN 0 ELSE lock
    /\ Return(p, NULL, FALSE, "error")

\* The process is started by cron or by hand: parse_arguments()
Start(p) ==
    /\ pc[p] = "idle"
    /\ runs < MaxRuns
    /\ \E dry \in BOOLEAN :
         loc' = [loc EXCEPT ![p] = [LocInit EXCEPT !.dry_run = dry]]
    /\ pc' = [pc EXCEPT ![p] = "validate"]
    /\ pre' = [pre EXCEPT ![p] = Store]
    /\ runs' = runs + 1
    /\ UNCHANGED << calc, today, TableVars, StoreVars, last_result, notifs, lastPrune >>

\* Variant: the missing variable is only logged, without exit(1)
ValidateLogsOnly(p) ==
    /\ pc[p] = "validate"
    /\ \E webhook_url \in BOOLEAN :
         /\ pc' = [pc EXCEPT ![p] = "gate"]
         /\ loc' = IF webhook_url THEN loc
                   ELSE [loc EXCEPT ![p].outcome = "config"]
    /\ UNCHANGED << calc, today, TableVars, StoreVars, pre, runs, last_result,
                    notifs, lastPrune >>

\* validate_environment(): exit(1) when SLACK_WEBHOOK_URL is not set
Validate(p) ==
    /\ pc[p] = "validate"
    /\ \E webhook_url \in BOOLEAN :
         IF webhook_url
             THEN /\ pc' = [pc EXCEPT ![p] = "gate"]
                  /\ loc' = loc
             ELSE /\ pc' = [pc EXCEPT ![p] = "done"]
                  /\ loc' = [loc EXCEPT ![p].outcome = "config"]
    /\ UNCHANGED << calc, today, TableVars, StoreVars, pre, runs, last_result, notifs,
                    lastPrune >>

\* Variant: the run is skipped only when both checks say so
GateSkipsBoth(weekend, holiday) == weekend /\ holiday

\* if is_weekend(): return / if is_holiday(): return
GateSkips(weekend, holiday) == weekend \/ holiday

Gate(p) ==
    /\ pc[p] = "gate"
    /\ \E api \in ApiOutcomes, libOk \in BOOLEAN :
         LET weekend == is_weekend(today)
             holiday == ~ weekend /\ is_holiday(today, api, libOk)
         IN  /\ loc' = [loc EXCEPT ![p].holiday = holiday,
                                   ![p].outcome =
                                       IF GateSkips(weekend, holiday)
                                           THEN "skip" ELSE @]
             /\ pc' = [pc EXCEPT ![p] =
                          IF GateSkips(weekend, holiday) THEN "done"
                          ELSE "check"]
    /\ UNCHANGED << calc, today, TableVars, StoreVars, pre, runs, last_result, notifs,
                    lastPrune >>

\* Variant: the lookup uses yesterday's date
AlreadyChosenYesterday(hist, d) == RowsOn(hist, IsoFormat(d - 1))

\* Variant: the lookup never finds a row
AlreadyChosenNever(hist, d) == << >>

\* "Check if someone is already chosen for today": the rows of
\* user JOIN selection_history for today; fetchone() takes the first
AlreadyChosen(hist, d) == RowsOn(hist, IsoFormat(d))

Check(p) ==
    /\ pc[p] = "check"
    /\ \E dbOk \in BOOLEAN :
         LET result == AlreadyChosen(history, today)
         IN  IF ~ dbOk THEN Rollback(p)
             ELSE IF result # << >>
                 THEN /\ Return(p, MailOf(result[1].user_id), FALSE, "existing")
                      /\ UNCHANGED << lock, txn >>
             ELSE /\ pc' = [pc EXCEPT ![p] = "elig"]
                  /\ UNCHANGED << loc, lock, txn >>
    /\ UNCHANGED << calc, today, TableVars, history, last_chosen, pre, runs,
                    last_result, notifs, lastPrune >>

\* SELECT id, mail, last_chosen FROM user WHERE weekdays LIKE '%<w>%'
UserRow(u) == [id |-> u, mail |-> MailOf(u), last_chosen |-> last_chosen[u]]

AllUsers(d) ==
    SelectSeq([u \in Users |-> UserRow(u)],
              LAMBDA row : StrftimeW(d) \in weekdays[row.id])

\* What the loop sees of is_user_on_vacation(): the query's answer, or
\* False when the query raised sqlite3.Error (lookupFailed)
OnVacationSeen(user_id, d, lookupFailed) ==
    IF lookupFailed THEN FALSE
    ELSE is_user_on_vacation(vacation, user_id, IsoFormat(d))

Elig(p) ==
    /\ pc[p] = "elig"
    /\ \E dbOk \in BOOLEAN, failed \in SUBSET Users :
         LET available_users ==
                 SelectSeq(AllUsers(today),
                           LAMBDA row : ~ OnVacationSeen(row.id, today,
                                                         row.id \in failed))
         IN  IF ~ dbOk THEN Rollback(p)
             ELSE IF available_users = << >>
                 THEN /\ Return(p, NULL, FALSE, "none")
                      /\ UNCHANGED << lock, txn >>
             ELSE /\ pc' = [pc EXCEPT ![p] = "weigh"]
                  /\ loc' = [loc EXCEPT ![p].available_users = available_users]
                  /\ UNCHANGED << lock, txn >>
    /\ UNCHANGED << calc, today, TableVars, history, last_chosen, pre, runs,
                    last_result, notifs, lastPrune >>

\* Variant: has_alternatives = True
HasAlternativesAlways(available_users, last_working_day_catcher_id) == TRUE

HasAlternatives(available_users, last_working_day_catcher_id) ==
    \/ Len(available_users) > 1
    \/ /\ Len(available_users) = 1
       /\ available_users[1].id # last_working_day_catcher_id

\* The loop that builds weighted_users, recents[i] being what
\* get_recent_selection_count returns for available_users[i]
WeightedUsersFrom(available_users, recents, d, lwdc) ==
    [i \in 1 .. Len(available_users) |->
        LET user == available_users[i]
        IN  [user |-> user,
             weight |-> WScale * calculate_user_weight(user.id,
                            user.last_chosen, d, lwdc, recents[i],
                            HasAlternatives(available_users, lwdc)),
             recent_selections |-> recents[i],
             is_yesterday |-> (user.id = lwdc),
             tie_breaker_applied |-> 0]]

\* The list weighted_users before tie-breaking
WeightedUsers(available_users, hist, d, lwdc, countFailed) ==
    WeightedUsersFrom(available_users,
        [i \in 1 .. Len(available_users) |->
            get_recent_selection_count(hist, d, available_users[i].id,
                LOOKBACK_DAYS, available_users[i].id \notin countFailed)],
        d, lwdc)

\* Variant: without "weighted_users.sort(...)"
FinalWeightedUsersUnsorted(available_users, hist, d, lwdc, countFailed) ==
    add_tie_breaking_logic(
        WeightedUsers(available_users, hist, d, lwdc, countFailed))

\* Tie-breaking and the sort by final weight
FinalWeightedUsers(available_users, hist, d, lwdc, countFailed) ==
    StableSort(add_tie_breaking_logic(
                   WeightedUsers(available_users, hist, d, lwdc, countFailed)),
               "weight")

\* Variant: the dry-run flag is ignored
DryRunIgnored(dry_run) == FALSE

\* if dry_run: only log; else: record the selection
DryRunSkipsWrite(dry_run) == dry_run

Weigh(p) ==
    /\ pc[p] = "weigh"
    /\ \E libOk \in BOOLEAN, lwdcOk \in BOOLEAN, countFailed \in SUBSET Users :
         \E lwdc \in { get_last_working_day_catcher(history, today, libOk,
                                                      lwdcOk) } :
           \E wus \in { FinalWeightedUsers(loc[p].available_users, history,
                                           today, lwdc, countFailed) } :
             \E rand_val \in Draws(wus), pick \in 1 .. Len(wus) :
               \E selected_user \in { weighted_random_selection_improved(
                                          wus, rand_val, pick) } :
                   IF DryRunSkipsWrite(loc[p].dry_run)
                       THEN /\ pc' = [pc EXCEPT ![p] = "main"]
                            /\ loc' = [loc EXCEPT
                                   ![p].selected_user = selected_user,
                                   ![p].available_users = << >>,
                                   ![p].drew = TRUE,
                                   ![p].mail = selected_user.mail,
                                   ![p].is_new_selection = TRUE,
                                   ![p].outcome = "new"]
                       ELSE /\ pc' = [pc EXCEPT ![p] = "insert"]
                            /\ loc' = [loc EXCEPT
                                   ![p].selected_user = selected_user,
                                   ![p].available_users = << >>,
                                   ![p].drew = TRUE]
    /\ UNCHANGED << calc, today, TableVars, StoreVars, pre, runs, last_result, notifs,
                    lastPrune >>

\* Variant: the INSERT is committed on its own (autocommit)
InsertAutocommit(p) ==
    /\ pc[p] = "insert"
    /\ \/ /\ lock = 0
          /\ history' = Append(history, Row(loc[p].selected_user.id, today))
          /\ pc' = [pc EXCEPT ![p] = "update"]
          /\ UNCHANGED << loc, lock, txn >>
       \/ /\ Rollback(p)
          /\ history' = history
    /\ UNCHANGED << calc, today, TableVars, last_chosen, pre, runs, last_result, notifs,
                    lastPrune >>

\* INSERT INTO selection_history (user_id, selected_date) VALUES (?, ?)
Insert(p) ==
    /\ pc[p] = "insert"
    /\ \/ /\ lock = 0
          /\ lock' = p
          /\ txn' = [txn EXCEPT ![p].ins =
                        << Row(loc[p].selected_user.id, today) >>]
          /\ pc' = [pc EXCEPT ![p] = "update"]
          /\ loc' = loc
       \/ Rollback(p)
    /\ UNCHANGED << calc, today, TableVars, history, last_chosen, pre, runs,
                    last_result, notifs, lastPrune >>

\* Variant: UPDATE user SET last_chosen = ?
UpdateEveryUser(p) ==
    /\ pc[p] = "update"
    /\ \/ /\ txn' = [txn EXCEPT ![p].upd =
                        [u \in 1 .. NumUsers |->
                            [id |-> u, last_chosen |-> IsoFormat(today)]]]
          /\ pc' = [pc EXCEPT ![p] = "commit"]
          /\ UNCHANGED << loc, lock >>
       \/ Rollback(p)
    /\ UNCHANGED << calc, today, TableVars, history, last_chosen, pre, runs,
                    last_result, notifs, lastPrune >>

\* UPDATE user SET last_chosen = ? WHERE id = ?
Update(p) ==
    /\ pc[p] = "update"
    /\ \/ /\ txn' = [txn EXCEPT ![p].upd =
                        << [id |-> loc[p].selected_user.id,
                            last_chosen |-> IsoFormat(today)] >>]
          /\ pc' = [pc EXCEPT ![p] = "commit"]
          /\ UNCHANGED << loc, lock >>
       \/ Rollback(p)
    /\ UNCHANGED << calc, today, TableVars, history, last_chosen, pre, runs,
                    last_result, notifs, lastPrune >>

\* The committed tables after the writes of a transaction
Committed(hist, lc, t) ==
    [history |-> hist \o t.ins,
     last_chosen |-> [u \in Users |->
         IF \E i \in 1 .. Len(t.upd) : t.upd[i].id = u
             THEN t.upd[CHOOSE i \in 1 .. Len(t.upd) : t.upd[i].id = u].last_chosen
             ELSE lc[u]]]

\* conn.commit()
Commit(p) ==
    /\ pc[p] = "commit"
    /\ \/ /\ history' = Committed(history, last_chosen, txn[p]).history
          /\ last_chosen' = Committed(history, last_chosen, txn[p]).last_chosen
          /\ txn' = [txn EXCEPT ![p] = EmptyTxn]
          /\ lock' = 0
          /\ pc' = [pc EXCEPT ![p] = "cleanup"]
          /\ loc' = loc
       \/ /\ Rollback(p)
          /\ UNCHANGED << history, last_chosen >>
    /\ UNCHANGED << calc, today, TableVars, pre, runs, last_result, notifs, lastPrune >>

(***************************************************************************)
(* Pruning                                                                 *)
(***************************************************************************)
\* Variant: DELETE ... WHERE selected_date <= cutoff_date
RetainedAfter(hist, d, retention_days) ==
    SelectSeq(hist, LAMBDA r :
        ~ TextLeq(r.selected_date, IsoFormat(d - retention_days)))

\* DELETE FROM selection_history WHERE selected_date < cutoff_date:
\* the rows that remain
Retained(hist, d, retention_days) ==
    SelectSeq(hist, LAMBDA r :
        ~ TextLess(r.selected_date, IsoFormat(d - retention_days)))

\* SELECT COUNT(*) FROM selection_history WHERE selected_date < cutoff_date
OldCount(hist, d, retention_days) ==
    Len(SelectSeq(hist, LAMBDA r :
        TextLess(r.selected_date, IsoFormat(d - retention_days))))

\* "if not dry_run and random.random() < CLEANUP_PROBABILITY:
\*      cleanup_old_selection_history(conn)", then the end of the "with"
\* block, which commits the DELETE
Cleanup(p) ==
    /\ pc[p] = "cleanup"
    /\ \E lucky \in BOOLEAN, result \in {"ok", "sql_error", "commit_error"} :
         LET old_count == OldCount(history, today, CLEANUP_RETENTION_DAYS)
             kept == Retained(history, today, CLEANUP_RETENTION_DAYS)
             mail == loc[p].selected_user.mail
         IN  IF ~ lucky \/ result = "sql_error" \/ old_count = 0
                 THEN /\ Return(p, mail, TRUE, "new")
                      /\ UNCHANGED << history, lastPrune >>
             ELSE IF result = "commit_error"
                 THEN /\ Return(p, NULL, FALSE, "error")
                      /\ UNCHANGED << history, lastPrune >>
             ELSE /\ lock = 0
                  /\ history' = kept
                  /\ lastPrune' = [days |-> CLEANUP_RETENTION_DAYS,
                                   deleted |-> Len(history) - Len(kept)]
                  /\ Return(p, mail, TRUE, "new")
    /\ UNCHANGED << calc, today, TableVars, last_chosen, lock, txn, pre, runs,
                    last_result, notifs >>

\* cleanup_selection_history.py --days N [--dry-run], run while no
\* daily run is in progress
PruneDaysChoices == {LOOKBACK_DAYS - 1, LOOKBACK_DAYS, DEFAULT_RETENTION_DAYS}

PruneScript ==
    /\ \A p \in Procs : pc[p] = "idle"
    /\ lock = 0
    /\ \E retention_days \in PruneDaysChoices, dry_run \in BOOLEAN :
         LET old_count == OldCount(history, today, retention_days)
             kept == Retained(history, today, retention_days)
         IN  /\ old_count > 0
             /\ ~ dry_run
             /\ history' = kept
             /\ lastPrune' = [days |-> retention_days,
                              deleted |-> Len(history) - Len(kept)]
    /\ UNCHANGED << calc, today, TableVars, last_chosen, lock, txn, pc, loc, pre,
                    runs, last_result, notifs >>

(***************************************************************************)
(* Notification                                                            *)
(***************************************************************************)
\* main() after find_next_catcher_weighted() returned, up to the guards
\* at the top of trigger_slack()
\* Variant: every run that has a catcher notifies
ShouldNotifyAlways(mail, is_new_selection) == mail # NULL

\* "if mail: if is_new_selection:"
ShouldNotify(mail, is_new_selection) == mail # NULL /\ is_new_selection

Main(p) ==
    /\ pc[p] = "main"
    /\ IF ShouldNotify(loc[p].mail, loc[p].is_new_selection)
           THEN IF loc[p].dry_run
                    THEN /\ pc' = [pc EXCEPT ![p] = "done"]
                         /\ loc' = [loc EXCEPT ![p].success = TRUE]
                         /\ notifs' = notifs
                    ELSE /\ pc' = [pc EXCEPT ![p] = "notify"]
                         /\ loc' = [loc EXCEPT ![p].called = TRUE]
                         /\ notifs' = Append(notifs,
                                [date |-> today, mail |-> loc[p].mail])
           ELSE /\ pc' = [pc EXCEPT ![p] = "done"]
                /\ UNCHANGED << loc, notifs >>
    /\ UNCHANGED << calc, today, TableVars, StoreVars, pre, runs, last_result,
                    lastPrune >>

PostOutcomes == {"200", "5xx", "other", "timeout", "exception"}

\* Variant: a notification that finally fails undoes the selection
NotifyUndoes(p) ==
    /\ pc[p] = "notify"
    /\ loc[p].attempt < max_retries
    /\ \E response \in PostOutcomes :
         LET retry_num == loc[p].attempt + 1
         IN  IF response = "200"
                 THEN /\ pc' = [pc EXCEPT ![p] = "done"]
                      /\ loc' = [loc EXCEPT ![p].success = TRUE,
                                            ![p].posts = @ + 1]
                      /\ UNCHANGED << history, last_chosen >>
             ELSE IF response \in {"5xx", "timeout"} /\ retry_num < max_retries
                 THEN /\ pc' = pc
                      /\ loc' = [loc EXCEPT ![p].attempt = @ + 1,
                                            ![p].posts = @ + 1]
                      /\ UNCHANGED << history, last_chosen >>
             ELSE /\ pc' = [pc EXCEPT ![p] = "done"]
                  /\ loc' = [loc EXCEPT ![p].posts = @ + 1]
                  /\ history' = pre[p].history
                  /\ last_chosen' = pre[p].last_chosen
    /\ UNCHANGED << calc, today, TableVars, lock, txn, pre, runs, last_result,
                    notifs, lastPrune >>

\* One iteration of "for attempt in range(max_retries)" in trigger_slack()
Notify(p) ==
    /\ pc[p] = "notify"
    /\ loc[p].attempt < max_retries
    /\ \E response \in PostOutcomes :
         LET retry_num == loc[p].attempt + 1
         IN  IF response = "200"
                 THEN /\ pc' = [pc EXCEPT ![p] = "done"]
                      /\ loc' = [loc EXCEPT ![p].success = TRUE,
                                            ![p].posts = @ + 1]
             ELSE IF response \in {"5xx", "timeout"} /\ retry_num < max_retries
                 THEN /\ pc' = pc
                      /\ loc' = [loc EXCEPT ![p].attempt = @ + 1,
                                            ![p].posts = @ + 1]
             ELSE /\ pc' = [pc EXCEPT ![p] = "done"]
                  /\ loc' = [loc EXCEPT ![p].posts = @ + 1]
    /\ UNCHANGED << calc, today, TableVars, StoreVars, pre, runs, last_result, notifs,
                    lastPrune >>

\* What trigger_slack() does towards the outside, in order
Posted(response) == [op |-> "post", response |-> response, seconds |-> 0]

Slept(seconds) == [op |-> "sleep", response |-> "", seconds |-> seconds]

\* Variant: retry_delay = initial_retry_delay
retry_delay_constant(attempt) == initial_retry_delay

\* retry_delay = initial_retry_delay * (2**attempt)
retry_delay(attempt) == initial_retry_delay * (2 ^ attempt)

\* "for attempt in range(max_retries)" from the given attempt on;
\* responses[attempt + 1] is what requests.post meets in that attempt
RECURSIVE SlackLoop(_, _)
SlackLoop(responses, attempt) ==
    IF attempt >= max_retries THEN [result |-> FALSE, trace |-> << >>]
    ELSE LET response == responses[attempt + 1]
             retry_num == attempt + 1
         IN  IF response = "200"
                 THEN [result |-> TRUE, trace |-> << Posted(response) >>]
             ELSE IF response \in {"5xx", "timeout"} /\ retry_num < max_retries
                 THEN LET rest == SlackLoop(responses, attempt + 1)
                      IN  [result |-> rest.result,
                           trace |-> << Posted(response),
                                        Slept(retry_delay(attempt)) >>
                                     \o rest.trace]
             ELSE [result |-> FALSE, trace |-> << Posted(response) >>]

\* trigger_slack(mail, dry_run=dry_run); webhook_url is the value of
\* SLACK_WEBHOOK_URL, NULL when it is not set
trigger_slack(mail, dry_run, webhook_url, responses) ==
    IF mail = NULL THEN [result |-> FALSE, trace |-> << >>]
    ELSE IF dry_run THEN [result |-> TRUE, trace |-> << >>]
    ELSE IF webhook_url = NULL THEN [result |-> FALSE, trace |-> << >>]
    ELSE SlackLoop(responses, 0)

\* "else: logging.error(f'Failed to notify catcher: {mail}')" in main():
\* the log keeps the date, the address and the number of the invocation
LogNotifyFailure(p) ==
    /\ pc[p] = "done"
    /\ loc[p].called /\ ~loc[p].success
    /\ calc = NoCalc
    /\ calc' = [fn |-> "main", date |-> today, mail |-> loc[p].mail,
                run |-> runs]
    /\ UNCHANGED << today, TableVars, StoreVars, pc, loc, pre, runs,
                    last_result, notifs, lastPrune >>

\* The exit status of the process: exit(1) in validate_environment();
\* otherwise main() returns None, also after a failed notification, a
\* sqlite3.Error or a caught exception, and the interpreter exits with 0
ExitStatus(outcome) == IF outcome = "config" THEN 1 ELSE 0

\* The process exits
Finish(p) ==
    /\ pc[p] = "done"
    /\ pc' = [pc EXCEPT ![p] = "idle"]
    /\ last_result' =
           IF ~ loc[p].dry_run /\ loc[p].outcome \in {"new", "existing"}
               THEN [date |-> today, mail |-> loc[p].mail]
               ELSE last_result
    /\ loc' = [loc EXCEPT ![p] = LocInit]
    /\ pre' = [pre EXCEPT ![p] = NoStore]
    /\ UNCHANGED << calc, today, TableVars, StoreVars, runs, notifs, lastPrune >>

\* Midnight passes while no invocation is running
AdvanceDay ==
    /\ \A p \in Procs : pc[p] = "idle"
    /\ today < Day0 + MaxDayAdvance
    /\ today' = today + 1
    /\ UNCHANGED << calc, TableVars, StoreVars, pc, loc, pre, runs, last_result, notifs,
                    lastPrune >>

(***************************************************************************)
(* Functions taken on their own                                            *)
(***************************************************************************)
\* Everything but calc
RunVars == << today, weekdays, vacation, history, last_chosen, lock, pc, loc,
              txn, pre, runs, last_result, notifs, lastPrune >>

\* A store without history, everybody working Monday to Friday
InitCalc ==
    /\ weekdays = [u \in Users |-> WorkWeek]
    /\ vacation = {}
    /\ history = << >>
    /\ InitRest

\* Values of user.last_chosen: never selected, selected 0, 1, 29, 30 and
\* 60 days ago, and a text strptime does not accept
WeightDayOffsets == {0, 1, LOOKBACK_DAYS - 1, LOOKBACK_DAYS, 2 * LOOKBACK_DAYS}

MalformedDate == << 2, 0, 1, 0 >>

WeightLastChosen ==
    {NoDate, MalformedDate} \cup {IsoFormat(Day0 - k) : k \in WeightDayOffsets}

\* Values of get_recent_selection_count()
RecentCounts == {0, 1, 10, 11, LOOKBACK_DAYS + 1}

\* calculate_user_weight() for one candidate, and again for the same
\* candidate with another last_chosen
CalcWeight ==
    /\ calc = NoCalc
    /\ \E user_id \in Users, lc \in WeightLastChosen,
          other_lc \in WeightLastChosen, lwdc \in Users \cup {NULL},
          recent \in RecentCounts, has_alternatives \in BOOLEAN :
         calc' = [fn |-> "calculate_user_weight",
                  user_id |-> user_id,
                  last_chosen |-> lc,
                  last_working_day_catcher_id |-> lwdc,
                  recent_selections |-> recent,
                  has_alternatives |-> has_alternatives,
                  result |-> calculate_user_weight(user_id, lc, today, lwdc,
                                 recent, has_alternatives),
                  other_last_chosen |-> other_lc,
                  other_result |-> calculate_user_weight(user_id, other_lc,
                                       today, lwdc, recent, has_alternatives)]
    /\ UNCHANGED RunVars

\* The two weeks around Day0
GateDays == (Day0 - 7) .. (Day0 + 6)

\* is_weekend() and is_holiday() as main() calls them on day d
CalcHoliday ==
    /\ calc = NoCalc
    /\ \E d \in GateDays, api \in ApiOutcomes, libOk \in BOOLEAN :
         LET weekend == is_weekend(d)
             holiday == ~ weekend /\ is_holiday(d, api, libOk)
         IN  calc' = [fn |-> "is_holiday",
                      date |-> d,
                      api |-> api,
                      libOk |-> libOk,
                      library_consulted |-> LibraryConsulted(api),
                      result |-> is_holiday(d, api, libOk),
                      skips |-> GateSkips(weekend, holiday)]
    /\ UNCHANGED RunVars

\* Vacation tables for the overlap check: ranges over the days 100 and
\* 102, stored zero-padded, up to MaxVacations + 1 rows
OverlapRows ==
    { [user_id |-> u, start_date |-> IsoFormat(a), end_date |-> IsoFormat(b)] :
        u \in Users, a \in {100, 102}, b \in {100, 102} } \ 
    { [user_id |-> u, start_date |-> IsoFormat(102), end_date |-> IsoFormat(100)] :
        u \in Users }

InitOverlap ==
    /\ weekdays = [u \in Users |-> WorkWeek]
    /\ vacation \in { T \in SUBSET OverlapRows :
                         Cardinality(T) <= MaxVacations + 1 }
    /\ history = << >>
    /\ InitRest

\* The date texts of a request: the days 98 to 103, zero-padded or not
OverlapDates ==
    {IsoFormat(d) : d \in 98 .. 103} \cup {Unpadded(d) : d \in 98 .. 103}

\* add_vacation(): both dates pass strptime, the end is not before the
\* start, and check_vacation_overlap() is called with the texts as sent
CalcOverlap ==
    /\ calc = NoCalc
    /\ \E user_id \in Users, start_date \in OverlapDates,
          end_date \in OverlapDates, dbOk \in BOOLEAN :
         /\ WellFormed(start_date) /\ WellFormed(end_date)
         /\ Strptime(end_date) >= Strptime(start_date)
         /\ calc' = [fn |-> "check_vacation_overlap",
                      user_id |-> user_id,
                      start_date |-> start_date,
                      end_date |-> end_date,
                      dbOk |-> dbOk,
                      result |-> check_vacation_overlap(vacation, user_id,
                                     start_date, end_date, dbOk)]
    /\ UNCHANGED RunVars

\* Stores for the count of recent selections: selections made 31, 30 and
\* 1 day before Day0 and on Day0 (by an invocation that overlaps the one
\* counting)
CountInitDates == { Day0 - LOOKBACK_DAYS - 1, Day0 - LOOKBACK_DAYS,
                    Day0 - 1, Day0 }

InitCount ==
    /\ weekdays = [u \in Users |-> WorkWeek]
    /\ vacation = {}
    /\ history \in HistoriesFrom(CountInitDates, MaxInitRecords)
    /\ InitRest

\* get_recent_selection_count(conn, user_id) as the weighting calls it
CalcCount ==
    /\ calc = NoCalc
    /\ \E user_id \in Users, dbOk \in BOOLEAN :
         calc' = [fn |-> "get_recent_selection_count",
                  user_id |-> user_id,
                  days |-> LOOKBACK_DAYS,
                  dbOk |-> dbOk,
                  result |-> get_recent_selection_count(history, today,
                                 user_id, LOOKBACK_DAYS, dbOk)]
    /\ UNCHANGED RunVars

\* Stores for the last working day's catcher: selections made 8, 7, 3, 2
\* and 1 day before Day0; Day0 - 2 is in the holiday table, so its record
\* was written on a day the web service answered 204
LastDayInitDates == { Day0 - LastWorkingDayWindow - 1,
                      Day0 - LastWorkingDayWindow,
                      Day0 - 3, Day0 - 2, Day0 - 1 }

InitLastDay ==
    /\ weekdays = [u \in Users |-> WorkWeek]
    /\ vacation = {}
    /\ history \in HistoriesFrom(LastDayInitDates, MaxInitRecords)
    /\ InitRest

\* get_last_working_day_catcher(conn); api and libOk are what the web
\* service and the table answered on the days looked at (the function
\* never asks the service): every day that has a record passed the gate
\* under these answers
CalcLastDay ==
    /\ calc = NoCalc
    /\ \E api \in ApiOutcomes, libOk \in BOOLEAN, dbOk \in BOOLEAN :
         /\ \A i \in 1 .. Len(history) :
              ~is_holiday(Strptime(history[i].selected_date), api, libOk)
         /\ calc' = [fn |-> "get_last_working_day_catcher",
                     api |-> api,
                     libOk |-> libOk,
                     dbOk |-> dbOk,
                     result |-> get_last_working_day_catcher(history,
                                    today, libOk, dbOk)]
    /\ UNCHANGED RunVars

\* Stores for the selection: selections made 91, 3 and 1 day before Day0
SelectInitDates == { Day0 - CLEANUP_RETENTION_DAYS - 1, Day0 - 3, Day0 - 1 }

InitSelect ==
    /\ weekdays = [u \in Users |-> WorkWeek]
    /\ vacation = {}
    /\ history \in HistoriesFrom(SelectInitDates, MaxInitRecords)
    /\ InitRest

\* The orders in which the rows of a set of users can be read
RECURSIVE Orders(_)
Orders(S) ==
    IF S = {} THEN { << >> }
    ELSE UNION { { << u >> \o t : t \in Orders(S \ {u}) } : u \in S }

\* Weights, tie-breaking, sort and selection for the candidates of one
\* day, and again for the same candidates read in another order, with
\* the same answers of the store and the same random draw
CalcSelect ==
    /\ calc = NoCalc
    /\ \E S \in (SUBSET Users) \ {{}}, lwdcOk \in BOOLEAN,
          countFailed \in SUBSET Users :
         \E order \in Orders(S), other_order \in Orders(S) :
           LET lwdc == get_last_working_day_catcher(history, today, TRUE,
                                                    lwdcOk)
               available_users == [i \in 1 .. Len(order) |-> UserRow(order[i])]
               other_available_users ==
                   [i \in 1 .. Len(order) |-> UserRow(other_order[i])]
           IN  \E wus \in { FinalWeightedUsers(available_users, history,
                                  today, lwdc, countFailed) },
                  other_wus \in { FinalWeightedUsers(other_available_users,
                                        history, today, lwdc, countFailed) } :
               \E rand_val \in Draws(wus) \cup Draws(other_wus),
                  pick \in (IF RandomCall(wus) = "choice"
                               THEN 1 .. Len(wus) ELSE {1}) :
                 calc' = [fn |-> "find_next_catcher_weighted",
                          available_users |-> available_users,
                          other_available_users |-> other_available_users,
                          last_working_day_catcher_id |-> lwdc,
                          weighted_users |-> wus,
                          rand_val |-> rand_val,
                          random_call |-> RandomCall(wus),
                          result |-> weighted_random_selection_improved(
                                         wus, rand_val, pick),
                          other_result |-> weighted_random_selection_improved(
                                               other_wus, rand_val, pick)]
    /\ UNCHANGED RunVars

\* trigger_slack for every course of answers of the webhook
CalcSlack ==
    /\ calc = NoCalc
    /\ \E mail \in {NULL} \cup {MailOf(u) : u \in Users},
          dry_run \in BOOLEAN, webhook_url \in {NULL, 1},
          responses \in [1 .. max_retries -> PostOutcomes] :
         \E out \in { trigger_slack(mail, dry_run, webhook_url, responses) } :
           calc' = [fn |-> "trigger_slack",
                    mail |-> mail,
                    dry_run |-> dry_run,
                    webhook_url |-> webhook_url,
                    responses |-> responses,
                    result |-> out.result,
                    trace |-> out.trace]
    /\ UNCHANGED RunVars

\* Candidate rows for the weighting on its own: ids 1 .. MaxCandidates,
\* the mail addresses in the opposite order of the ids
Candidates == 1 .. MaxCandidates

CandidateMail(u) == MaxCandidates + 1 - u

\* The day of the weighting on its own: a Friday a year after Day0
TieDay == Day0 + 52 * 7

\* What the store says about a candidate: never selected; selected 365
\* days ago; selected 8 days ago, one selection in the look-back window;
\* selected 3 days ago, the count query failing (0) or not (1)
TieProfiles ==
    { [last_chosen |-> NoDate, recent |-> 0],
      [last_chosen |-> IsoFormat(TieDay - NeverSelectedBonus), recent |-> 0],
      [last_chosen |-> IsoFormat(TieDay - 8), recent |-> 1],
      [last_chosen |-> IsoFormat(TieDay - 3), recent |-> 0],
      [last_chosen |-> IsoFormat(TieDay - 3), recent |-> 1] }

\* The weights of the candidates of one day and the tie-breaking; the
\* last working day's catcher is nobody or a candidate selected 3 days ago
CalcTie ==
    /\ calc = NoCalc
    /\ \E S \in (SUBSET Candidates) \ {{}} :
         \E order \in Orders(S), prof \in [S -> TieProfiles] :
           \E lwdc \in {NULL} \cup
                   { u \in S : prof[u].last_chosen = IsoFormat(TieDay - 3) } :
             LET available_users ==
                     [i \in 1 .. Len(order) |->
                         [id |-> order[i],
                          mail |-> CandidateMail(order[i]),
                          last_chosen |-> prof[order[i]].last_chosen]]
                 recents == [i \in 1 .. Len(order) |-> prof[order[i]].recent]
                 weighted_users ==
                     WeightedUsersFrom(available_users, recents, TieDay, lwdc)
             IN  calc' = [fn |-> "add_tie_breaking_logic",
                          today |-> TieDay,
                          available_users |-> available_users,
                          last_working_day_catcher_id |-> lwdc,
                          has_alternatives |->
                              HasAlternatives(available_users, lwdc),
                          weighted_users |-> weighted_users,
                          result |-> add_tie_breaking_logic(weighted_users)]
    /\ UNCHANGED RunVars

(***************************************************************************)
(* Specifications                                                          *)
(***************************************************************************)
Run(p) ==
    \/ Start(p) \/ Validate(p) \/ Gate(p) \/ Check(p) \/ Elig(p) \/ Weigh(p)
    \/ Insert(p) \/ Update(p) \/ Commit(p) \/ Cleanup(p) \/ Main(p)
    \/ Notify(p) \/ Finish(p)

\* One invocation at a time, as the daily scheduler starts them
Next == Run(1) \/ AdvanceDay

Spec == Init /\ [][Next]_vars

\* The daily runs with the log of a failed notification
NextRenotify == Run(1) \/ AdvanceDay \/ LogNotifyFailure(1)

SpecRenotify == InitRenotify /\ [][NextRenotify]_vars

\* The same runs from the stores that vary eligibility
SpecElig == InitElig /\ [][Next]_vars

\* The daily runs and the cleanup script
NextPrune == Run(1) \/ AdvanceDay \/ PruneScript

SpecPrune == InitPrune /\ [][NextPrune]_vars

\* Invocations may overlap
NextConc == (\E p \in Procs : Run(p)) \/ AdvanceDay

SpecConc == InitConc /\ [][NextConc]_vars

\* The weight calculator on its own
NextWeight == CalcWeight

SpecWeight == InitCalc /\ [][NextWeight]_vars

\* The calendar gate on its own
NextHoliday == CalcHoliday

SpecHoliday == InitCalc /\ [][NextHoliday]_vars

\* The overlap check of the web application on its own
NextOverlap == CalcOverlap

SpecOverlap == InitOverlap /\ [][NextOverlap]_vars

\* The count of recent selections on its own
NextCount == CalcCount

SpecCount == InitCount /\ [][NextCount]_vars

\* The lookup of the last working day's catcher on its own
NextLastDay == CalcLastDay

SpecLastDay == InitLastDay /\ [][NextLastDay]_vars

\* The delivery of the notification on its own
NextSlack == CalcSlack

SpecSlack == InitCalc /\ [][NextSlack]_vars

\* Weighting and tie-breaking on their own
NextTie == CalcTie

SpecTie == InitCalc /\ [][NextTie]_vars

\* Weighting, tie-breaking and selection on their own
NextSelect == CalcSelect

SpecSelect == InitSelect /\ [][NextSelect]_vars

(***************************************************************************)
(* Vocabulary of the properties                                            *)
(***************************************************************************)
\* A person is eligible on day d: the weekday mask includes d's weekday
\* and no vacation range has start <= d <= end (as dates)
Eligible(u, d) ==
    /\ StrftimeW(d) \in weekdays[u]
    /\ ~ \E v \in vacation : /\ v.user_id = u
                             /\ Strptime(v.start_date) <= d
                             /\ d <= Strptime(v.end_date)

EligibleSet(d) == {u \in Users : Eligible(u, d)}

\* The selection-history records of day d in a history
RecordsOn(hist, d) == SelectSeq(hist, LAMBDA r : Strptime(r.selected_date) = d)

\* The run of process p has called the notifier
Notified(p) == loc[p].called \/ loc[p].posts > 0

Active(p) == pc[p] # "idle"

\* The store after recording the selection of u on day d in store s
AfterSelection(s, u, d) ==
    [history |-> Append(s.history, Row(u, d)),
     last_chosen |-> [s.last_chosen EXCEPT ![u] = IsoFormat(d)]]

FatalOutcomes == {"config", "skip", "error"}

(***************************************************************************)
(* Properties                                                              *)
(***************************************************************************)
\* C1: on a day the calendar gate rejects (Saturday, Sunday, or a day the
\* holiday source reports as a holiday) a run of main() leaves the store as
\* it found it (no selection-history record, no last-chosen change) and
\* calls no notifier.
C1_GateClosedNoEffect ==
    \A p \in Procs :
        (Active(p) /\ (Weekday(today) >= 5 \/ loc[p].holiday))
            => (Store = pre[p] /\ ~ Notified(p))

\* A run skipped because of a holiday on a day with an eligible candidate
\* and no selection yet
C1_Witness ==
    \E p \in Procs :
        /\ pc[p] = "done" /\ loc[p].outcome = "skip" /\ loc[p].holiday
        /\ EligibleSet(today) # {}
        /\ RecordsOn(history, today) = << >>

\* C2: two non-dry runs in sequence on the same working date with an
\* eligible candidate, neither stopped by a fatal error, report the same
\* person, and afterwards exactly one record exists for that date.
C2_Idempotent ==
    \A p \in Procs :
        (/\ pc[p] = "done"
         /\ last_result.date = today
         /\ EligibleSet(today) # {}
         /\ ~ loc[p].dry_run
         /\ loc[p].outcome \notin FatalOutcomes)
            => (/\ loc[p].mail # NULL
                /\ loc[p].mail = last_result.mail
                /\ Len(RecordsOn(history, today)) = 1)

\* The second of two runs on one day reuses what the first selected
C2_Witness ==
    \E p \in Procs :
        /\ pc[p] = "done" /\ loc[p].outcome = "existing" /\ ~ loc[p].dry_run
        /\ RecordsOn(pre[p].history, today) # << >>
        /\ notifs # << >>
        /\ last_result = [date |-> today, mail |-> loc[p].mail]

\* C3: at most one selection-history record exists per date, whatever the
\* interleaving of the check-then-insert steps of concurrent runs.
C3_OneRecordPerDate ==
    \A i, j \in 1 .. Len(history) :
        history[i].selected_date = history[j].selected_date => i = j

\* C4: the person a run selects for today is eligible today (weekday mask
\* and no vacation range containing today), also when a vacation lookup
\* failed.
C4_SelectedIsEligible ==
    \A p \in Procs :
        loc[p].selected_user # NoRow => Eligible(loc[p].selected_user.id, today)

\* C5: the notifier is called at most once per new selection: only by the
\* non-dry run that created the day's record, never by a run that reuses
\* an existing selection, and never twice for the same person and day.
C5_NotifyOncePerSelection ==
    /\ \A i, j \in 1 .. Len(notifs) :
         (notifs[i].date = notifs[j].date /\ notifs[i].mail = notifs[j].mail)
             => i = j
    /\ \A p \in Procs :
         Notified(p)
             => /\ loc[p].outcome = "new" /\ ~ loc[p].dry_run
                /\ RecordsOn(pre[p].history, today) = << >>
                /\ RecordsOn(history, today)
                       = << Row(UserOfMail(loc[p].mail), today) >>
                /\ notifs[Len(notifs)] = [date |-> today, mail |-> loc[p].mail]
    /\ \A p \in Procs :
         (Active(p) /\ loc[p].outcome = "existing") => ~ Notified(p)

\* A run that reuses the selection its predecessor made and notified
C5_Witness ==
    \E p \in Procs :
        /\ pc[p] = "done" /\ loc[p].outcome = "existing"
        /\ Len(notifs) = 1
        /\ notifs[1] = [date |-> today, mail |-> loc[p].mail]

\* C6: a run that finds a record for today changes nothing in the store,
\* computes no weights and draws nobody, and (unless a fatal error stops
\* it) reports the person of that record as a reused selection.
C6_ExistingReused ==
    \A p \in Procs :
        (Active(p) /\ RecordsOn(pre[p].history, today) # << >>)
            => /\ Store = pre[p]
               /\ ~ loc[p].drew
               /\ (pc[p] = "done" /\ loc[p].outcome \notin FatalOutcomes)
                      => /\ loc[p].outcome = "existing"
                         /\ ~ loc[p].is_new_selection
                         /\ loc[p].mail =
                              MailOf(RecordsOn(pre[p].history, today)[1].user_id)

\* A run on a day whose record was there before it started
C6_Witness ==
    \E p \in Procs :
        /\ pc[p] = "done" /\ loc[p].outcome = "existing"
        /\ RecordsOn(pre[p].history, today) # << >>
        /\ loc[p].mail # NULL

\* C7: a run on a working day without a selection and without an eligible
\* person ends with the outcome "none": no error, no record inserted, no
\* last-chosen date updated, no notifier called.
C7_NoCandidatesIsNone ==
    \A p \in Procs :
        (/\ pc[p] = "done"
         /\ EligibleSet(today) = {}
         /\ RecordsOn(pre[p].history, today) = << >>
         /\ loc[p].outcome \notin FatalOutcomes)
            => (/\ loc[p].outcome = "none"
                /\ Store = pre[p]
                /\ ~ Notified(p))

\* C8: the insert into selection_history and the update of last_chosen
\* become visible together or not at all: during and after a run the
\* committed store is the store the run started from, or that store with
\* both writes for one person (and then possibly pruned); while the writes
\* are pending, and after a failure of one of them, it is the former.
C8_RecordAtomic ==
    \A p \in Procs :
        Active(p) =>
            /\ \/ Store = pre[p]
               \/ \E u \in Users :
                    LET a == AfterSelection(pre[p], u, today)
                    IN  \/ Store = a
                        \/ Store = [a EXCEPT !.history =
                               Retained(a.history, today,
                                        CLEANUP_RETENTION_DAYS)]
            /\ pc[p] \in {"insert", "update", "commit"} => Store = pre[p]
            /\ (loc[p].outcome = "error"
                    /\ RecordsOn(history, today) = RecordsOn(pre[p].history, today))
                   => Store = pre[p]

\* A run that drew a person and then failed in the insert, the update or
\* the commit
C8_Witness ==
    \E p \in Procs :
        /\ pc[p] = "done" /\ loc[p].outcome = "error" /\ loc[p].drew
        /\ Store = pre[p]

\* C9: a dry run goes through gate, eligibility, weighting, tie-break and
\* selection, but leaves the store unchanged (no insert, no last-chosen
\* update, no pruning) and calls no notifier.
C9_DryRunNoEffect ==
    \A p \in Procs :
        (Active(p) /\ loc[p].dry_run) => (Store = pre[p] /\ ~ Notified(p))

\* A dry run that selected a person
C9_Witness ==
    \E p \in Procs :
        /\ pc[p] = "done" /\ loc[p].dry_run /\ loc[p].drew
        /\ loc[p].selected_user # NoRow
        /\ loc[p].outcome = "new" /\ loc[p].success

\* C10: a prune with retention k removes exactly the records dated before
\* today - k; when k >= LOOKBACK_DAYS it removes no record dated on or
\* after today - LOOKBACK_DAYS and leaves every person's recent-selection
\* count as it was.
PruneStepOk ==
    Len(history') < Len(history) =>
        LET k == lastPrune'.days
        IN  /\ history' = SelectSeq(history, LAMBDA r :
                              Strptime(r.selected_date) >= today - k)
            /\ k >= LOOKBACK_DAYS =>
                 /\ \A i \in 1 .. Len(history) :
                      Strptime(history[i].selected_date) >= today - LOOKBACK_DAYS
                          => \E j \in 1 .. Len(history') :
                                history'[j] = history[i]
                 /\ \A u \in Users :
                      get_recent_selection_count(history', today, u,
                                                 LOOKBACK_DAYS, TRUE)
                        = get_recent_selection_count(history, today, u,
                                                     LOOKBACK_DAYS, TRUE)

C10_PruneKeepsLookback == [][PruneStepOk]_vars

\* A prune with retention = lookback that deleted something and kept the
\* record dated exactly today - LOOKBACK_DAYS
C10_Witness ==
    /\ lastPrune.days = LOOKBACK_DAYS /\ lastPrune.deleted > 0
    /\ RecordsOn(history, today - LOOKBACK_DAYS) # << >>

\* Days since the last selection as the weight formula counts them: 365
\* for a person never selected (no date, or a text that is not a date)
DaysSince(lc, d) ==
    IF lc = NoDate \/ ~ WellFormed(lc) THEN 365 ELSE d - Strptime(lc)

\* C11: the weight of a candidate is max(1, 100 + D - P - 5 * recentCount),
\* D the days since the last selection or 365 if never selected, P = 50 if
\* hasAlternatives and the person is the last working day's catcher, else
\* 0; so every weight is >= 1; a never-selected person without penalties
\* gets 465, a person selected once 29 days ago gets 124.
C11_WeightFormula ==
    calc.fn = "calculate_user_weight" =>
        LET D == DaysSince(calc.last_chosen, today)
            P == IF calc.has_alternatives
                    /\ calc.last_working_day_catcher_id = calc.user_id
                     THEN 50 ELSE 0
            expected == 100 + D - P - 5 * calc.recent_selections
        IN  /\ calc.result = (IF expected >= 1 THEN expected ELSE 1)
            /\ calc.result >= 1
            /\ (calc.last_chosen = NoDate /\ P = 0
                    /\ calc.recent_selections = 0) => calc.result = 465
            /\ (calc.last_chosen = IsoFormat(today - 29) /\ P = 0
                    /\ calc.recent_selections = 1) => calc.result = 124

\* Yesterday's catcher with eleven recent selections: 100 + 1 - 50 - 55 is
\* negative and the weight is 1
C11_Witness ==
    /\ calc.fn = "calculate_user_weight"
    /\ calc.last_chosen = IsoFormat(today - 1)
    /\ calc.has_alternatives
    /\ calc.last_working_day_catcher_id = calc.user_id
    /\ calc.recent_selections = 11
    /\ calc.result = 1

\* C12: of two weight computations that differ only in the days since the
\* candidate's last selection, the one with more days never yields the
\* smaller weight.
C12_WeightMonotone ==
    (/\ calc.fn = "calculate_user_weight"
     /\ DaysSince(calc.other_last_chosen, today)
            >= DaysSince(calc.last_chosen, today))
        => calc.other_result >= calc.result

\* Selected yesterday against selected 30 days ago, with the penalty for
\* yesterday's catcher in both: 51 and 80
C12_Witness ==
    /\ calc.fn = "calculate_user_weight"
    /\ calc.last_chosen = IsoFormat(today - 1)
    /\ calc.other_last_chosen = IsoFormat(today - LOOKBACK_DAYS)
    /\ calc.has_alternatives
    /\ calc.last_working_day_catcher_id = calc.user_id
    /\ calc.recent_selections = 0
    /\ calc.result = 51 /\ calc.other_result = 80

\* C13: when the candidate list has one member, the selection is that
\* member, whatever its weight and whatever the random draw would be, and
\* no function of the random module is called; also when the member is
\* the last working day's catcher.
C13_SingleCandidateSelected ==
    (calc.fn = "find_next_catcher_weighted" /\ Len(calc.available_users) = 1)
        => /\ calc.result = calc.available_users[1]
           /\ calc.random_call = "none"

\* The only candidate is the last working day's catcher
C13_Witness ==
    /\ calc.fn = "find_next_catcher_weighted"
    /\ Len(calc.available_users) = 1
    /\ calc.available_users[1].id = calc.last_working_day_catcher_id
    /\ calc.result = calc.available_users[1]

\* C14: weight calculation, tie-break and selection on the same people,
\* history, date and random draw choose the same candidate, in whatever
\* order the candidates were read from the store.
C14_SelectionOrderIndependent ==
    calc.fn = "find_next_catcher_weighted" => calc.result = calc.other_result

\* Two candidates with equal weights (neither ever selected) read in
\* opposite orders
C14_Witness ==
    /\ calc.fn = "find_next_catcher_weighted"
    /\ Len(calc.available_users) = 2
    /\ calc.available_users # calc.other_available_users
    /\ \A i \in 1 .. 2 : calc.available_users[i].last_chosen = NoDate
    /\ calc.result = calc.other_result

\* C15: once the notifier has been called, no step of the run (a failed
\* request, a retry, giving up, the exit) changes the store: the day's
\* record and the selected person's last-chosen date stay as committed.
C15_NotifyStepKeepsSelection ==
    \A p \in Procs :
        loc[p].called =>
            LET u == UserOfMail(loc[p].mail)
            IN  /\ history' = history
                /\ last_chosen' = last_chosen
                /\ RecordsOn(history', today) = << Row(u, today) >>
                /\ last_chosen'[u] = IsoFormat(today)

C15_NotifyFailureKeepsSelection == [][C15_NotifyStepKeepsSelection]_vars

\* A run whose notification failed after max_retries requests, with the
\* selection still recorded
C15_Witness ==
    \E p \in Procs :
        /\ pc[p] = "done" /\ loc[p].called /\ ~ loc[p].success
        /\ loc[p].posts = max_retries
        /\ RecordsOn(history, today)
               = << Row(UserOfMail(loc[p].mail), today) >>
        /\ last_chosen[UserOfMail(loc[p].mail)] = IsoFormat(today)

\* A finished run that recorded a selection and whose notification failed
PartialSuccess(p) ==
    /\ pc[p] = "done" /\ loc[p].outcome = "new" /\ ~ loc[p].dry_run
    /\ loc[p].called /\ ~ loc[p].success

\* A finished run that recorded a selection and notified
FullSuccess(p) ==
    /\ pc[p] = "done" /\ loc[p].outcome = "new" /\ ~ loc[p].dry_run
    /\ loc[p].called /\ loc[p].success

\* A finished run stopped by a fatal error before any selection
TotalFailure(p) ==
    pc[p] = "done" /\ loc[p].outcome \in {"config", "error"}

\* C16: the exit status a run reports for partial success (selection
\* recorded, notification failed) differs from the one a run reports for
\* total failure and from the one a run reports for full success.
C16_PartialSuccessDistinct ==
    \A p \in Procs, q \in Procs :
        (PartialSuccess(p) /\ (TotalFailure(q) \/ FullSuccess(q)))
            => ExitStatus(loc[p].outcome) # ExitStatus(loc[q].outcome)

\* C17: a run finds SLACK_WEBHOOK_URL missing only in its validation step,
\* before the gate; it then stops at once, having looked up no holiday,
\* read and written nothing in the store and called no notifier, and the
\* only thing it does afterwards is exit.
C17_ConfigStep ==
    \A p \in Procs :
        /\ (loc'[p].outcome = "config" /\ loc[p].outcome # "config")
               => /\ pc[p] = "validate" /\ pc'[p] = "done"
                  /\ loc'[p] = [LocInit EXCEPT !.dry_run = loc[p].dry_run,
                                               !.outcome = "config"]
                  /\ Store' = pre'[p]
                  /\ notifs' = notifs
        /\ loc[p].outcome = "config"
               => /\ Store' = Store /\ notifs' = notifs
                  /\ \/ pc'[p] = "idle"
                     \/ pc'[p] = pc[p] /\ loc'[p] = loc[p]

C17_ConfigErrorAborts == [][C17_ConfigStep]_vars

\* A run aborted for the missing variable on a working day that has an
\* eligible person and no selection yet
C17_Witness ==
    \E p \in Procs :
        /\ pc[p] = "done" /\ loc[p].outcome = "config"
        /\ Weekday(today) < 5
        /\ EligibleSet(today) # {}
        /\ RecordsOn(history, today) = << >>

\* C18: the web service is asked first and its 200 / 204 answer is final;
\* the static table is consulted only after an error or an unexpected
\* status, and then decides; when that fails too the day is not a holiday,
\* so on a weekday the gate lets the run proceed.
C18_HolidayFailsOpen ==
    calc.fn = "is_holiday" =>
        /\ calc.api = "200" => (calc.result /\ ~ calc.library_consulted)
        /\ calc.api = "204" => (~ calc.result /\ ~ calc.library_consulted)
        /\ calc.api \in {"other", "exception"} =>
              /\ calc.library_consulted
              /\ calc.libOk => (calc.result <=> calc.date \in GermanHolidays)
              /\ ~ calc.libOk => ~ calc.result
        /\ (calc.api \in {"other", "exception"} /\ ~ calc.libOk
                /\ Weekday(calc.date) < 5) => ~ calc.skips

\* Both methods fail on a Friday that the static table lists as a holiday
C18_Witness ==
    /\ calc.fn = "is_holiday"
    /\ calc.api = "exception" /\ ~ calc.libOk
    /\ calc.date \in GermanHolidays /\ Weekday(calc.date) < 5
    /\ ~ calc.result /\ ~ calc.skips

\* C19: check_vacation_overlap(user, s, e), when its query answers,
\* reports an overlap if and only if some existing range [s', e'] of the
\* same user has s' <= e and s <= e' as dates.
C19_OverlapIffRangesMeet ==
    (calc.fn = "check_vacation_overlap" /\ calc.dbOk) =>
        (calc.result <=>
            \E v \in vacation :
                /\ v.user_id = calc.user_id
                /\ Strptime(v.start_date) <= Strptime(calc.end_date)
                /\ Strptime(calc.start_date) <= Strptime(v.end_date))

C21_RecentCountHalfOpen ==
    (calc.fn = "get_recent_selection_count" /\ calc.dbOk) =>
        calc.result =
            Len(SelectSeq(history, LAMBDA r :
                    /\ r.user_id = calc.user_id
                    /\ today - calc.days <= Strptime(r.selected_date)
                    /\ Strptime(r.selected_date) < today))

\* The days 1 .. 7 before today
WindowDays == { today - k : k \in 1 .. LastWorkingDayWindow }

\* The numbers of days back, within the window, to a day that has a
\* record and is not in the set skipped, and the person of the first
\* record of the nearest of them
DaysBackWithRecord(skipped) ==
    { k \in 1 .. LastWorkingDayWindow :
        /\ today - k \notin skipped
        /\ RowsOn(history, IsoFormat(today - k)) # << >> }

CatcherOfNearest(days) ==
    IF days = {} THEN NULL
    ELSE LET k == CHOOSE x \in days : \A y \in days : x <= y
         IN  RowsOn(history, IsoFormat(today - k))[1].user_id

\* C22 as stated: the lookup skips the days the gate skips (weekends, and
\* holidays decided as the gate decides them, the web service first and
\* the table only when the service gives no answer) and returns the
\* person of the nearest remaining day within 7 days that has a record.
C22_SkipsAsTheGate ==
    (calc.fn = "get_last_working_day_catcher" /\ calc.dbOk) =>
        calc.result =
            CatcherOfNearest(DaysBackWithRecord({ x \in WindowDays :
                GateSkips(is_weekend(x),
                          is_holiday(x, calc.api, calc.libOk)) }))

\* C22 (amended): the lookup walks back 1 .. 7 days, skips weekends and
\* the days the holiday table lists (no day when the table cannot be
\* used), whatever the web service says, and returns the person of the
\* first record of the nearest remaining day that has one; it returns
\* none when there is no such day or when the store cannot be read.
C22_SkipsWeekendsAndTableHolidays ==
    calc.fn = "get_last_working_day_catcher" =>
        calc.result =
            IF ~calc.dbOk THEN NULL
            ELSE CatcherOfNearest(DaysBackWithRecord({ x \in WindowDays :
                     \/ Weekday(x) >= 5
                     \/ calc.libOk /\ x \in GermanHolidays }))

\* a record of a day the table lists is passed over although the web
\* service says the day is no holiday, and an older record is returned
C22_Witness ==
    /\ calc.fn = "get_last_working_day_catcher"
    /\ calc.dbOk /\ calc.libOk /\ calc.api = "204"
    /\ RowsOn(history, IsoFormat(Day0 - 2)) # << >>
    /\ RowsOn(history, IsoFormat(Day0 - 1)) = << >>
    /\ calc.result # NULL
    /\ calc.result # RowsOn(history, IsoFormat(Day0 - 2))[1].user_id

\* The expected weight of entry i of the weighted list when the penalty
\* for the last working day's catcher is P
ExpectedWeight(i, P) ==
    LET wu == calc.weighted_users[i]
    IN  WScale * Max(100 + DaysSince(wu.user.last_chosen, calc.today) - P
                         - 5 * wu.recent_selections, 1)

\* Candidate i is the last working day's catcher and another candidate
\* exists
Penalised(i) ==
    /\ calc.available_users[i].id = calc.last_working_day_catcher_id
    /\ Len(calc.available_users) > 1

\* C23: hasAlternatives is true iff there is more than one candidate, or
\* exactly one and that one is not the last working day's catcher; the
\* penalty of 50 is subtracted from a candidate's weight only when the
\* candidate is the last working day's catcher and another candidate
\* exists, and from at most one candidate.
C23_PenaltyOnlyWithAlternatives ==
    calc.fn = "add_tie_breaking_logic" =>
        LET n == Len(calc.available_users)
        IN  /\ calc.has_alternatives <=>
                  \/ n > 1
                  \/ /\ n = 1
                     /\ calc.available_users[1].id
                            # calc.last_working_day_catcher_id
            /\ \A i \in 1 .. n :
                  calc.weighted_users[i].weight =
                      ExpectedWeight(i, IF Penalised(i) THEN 50 ELSE 0)
            /\ Cardinality({ i \in 1 .. n : Penalised(i) }) <= 1

\* the only candidate is the last working day's catcher and keeps the
\* weight 100 + 3 - 5
C23_Witness ==
    /\ calc.fn = "add_tie_breaking_logic"
    /\ Len(calc.available_users) = 1
    /\ calc.available_users[1].id = calc.last_working_day_catcher_id
    /\ ~calc.has_alternatives
    /\ calc.weighted_users[1].weight = WScale * 98

\* The entry of a candidate in the list the tie-breaker returns
AfterTie(id) ==
    calc.result[CHOOSE k \in 1 .. Len(calc.result) :
                    calc.result[k].user.id = id]

\* The positions of the weighted list that are in the group of position i
TieGroupOf(i) ==
    { j \in 1 .. Len(calc.weighted_users) :
        Round2(calc.weighted_users[j].weight)
            = Round2(calc.weighted_users[i].weight) }

\* C25: the tie-breaker keeps the order of weights between groups: of two
\* candidates a and b in different groups with weight(a) < weight(b)
\* before tie-breaking, a still has the smaller weight after it.
C25_OrderBetweenGroupsKept ==
    calc.fn = "add_tie_breaking_logic" =>
        /\ Len(calc.result) = Len(calc.weighted_users)
        /\ \A a, b \in 1 .. Len(calc.weighted_users) :
              LET wa == calc.weighted_users[a]
                  wb == calc.weighted_users[b]
              IN  (b \notin TieGroupOf(a) /\ wa.weight < wb.weight) =>
                      AfterTie(wa.user.id).weight < AfterTie(wb.user.id).weight

\* two candidates tied at 98 get their bonuses and stay below a third
\* candidate at 103
C25_Witness ==
    /\ calc.fn = "add_tie_breaking_logic"
    /\ \E a, b, c \in 1 .. Len(calc.weighted_users) :
         /\ a # b
         /\ calc.weighted_users[a].weight = WScale * 98
         /\ calc.weighted_users[b].weight = WScale * 98
         /\ calc.weighted_users[c].weight = WScale * 103
         /\ AfterTie(calc.weighted_users[a].user.id).weight > WScale * 98
         /\ AfterTie(calc.weighted_users[a].user.id).weight < WScale * 103

\* The order of the claim: the older last-selection date first, a
\* candidate never selected the oldest; then the smaller address first
SelectedOn(wu) ==
    IF wu.user.last_chosen = NoDate THEN -1
    ELSE Strptime(wu.user.last_chosen)

RanksBefore(x, y) ==
    \/ SelectedOn(x) < SelectedOn(y)
    \/ SelectedOn(x) = SelectedOn(y) /\ x.user.mail < y.user.mail

\* C26: in a group of equal weight with more than one member, the
\* members are ranked by last-selection date ascending (never selected
\* the oldest), then by address ascending, and the member of rank r gets
\* the bonus 0.1 / (r + 1), so the weights in the group strictly decrease
\* along the ranks; a candidate alone in its group keeps its weight.
C26_BonusByRank ==
    calc.fn = "add_tie_breaking_logic" =>
        \A i \in 1 .. Len(calc.weighted_users) :
          LET wu == calc.weighted_users[i]
              rank == Cardinality({ j \in TieGroupOf(i) :
                          RanksBefore(calc.weighted_users[j], wu) })
              bonus == AfterTie(wu.user.id).weight - wu.weight
          IN  IF Cardinality(TieGroupOf(i)) = 1
                  THEN AfterTie(wu.user.id) = wu
              ELSE /\ bonus * (rank + 1) * 10 = WScale
                   /\ \A j \in TieGroupOf(i) :
                        RanksBefore(calc.weighted_users[j], wu) =>
                            AfterTie(calc.weighted_users[j].user.id).weight
                                > AfterTie(wu.user.id).weight

\* a candidate never selected and one selected 365 days ago tie at 465;
\* the one never selected has the greater address and still gets the
\* greater bonus
C26_Witness ==
    /\ calc.fn = "add_tie_breaking_logic"
    /\ \E i, j \in 1 .. Len(calc.weighted_users) :
         LET x == calc.weighted_users[i]
             y == calc.weighted_users[j]
         IN  /\ x.user.last_chosen = NoDate
             /\ y.user.last_chosen # NoDate
             /\ x.user.mail > y.user.mail
             /\ x.weight = y.weight
             /\ AfterTie(x.user.id).weight = x.weight + WScale \div 10
             /\ AfterTie(y.user.id).weight = y.weight + WScale \div 20

\* The sum of the weights of the first i entries of the weighted list
\* handed to the selector
CumulativeWeight(i) ==
    IF i = 0 THEN 0
    ELSE SeqSum([k \in 1 .. i |-> calc.weighted_users[k].weight])

\* C24: for a list of two or more candidates with positive total weight
\* and a draw r from the sampled range, the selector returns the first
\* candidate in list order whose cumulative weight is r or more, and the
\* person returned is one of the list.
C24_FirstCumulativeAtLeastDraw ==
    (/\ calc.fn = "find_next_catcher_weighted"
     /\ Len(calc.weighted_users) >= 2
     /\ CumulativeWeight(Len(calc.weighted_users)) > 0
     /\ calc.rand_val >= 0
     /\ calc.rand_val <= CumulativeWeight(Len(calc.weighted_users)))
        => \E i \in 1 .. Len(calc.weighted_users) :
             /\ calc.result = calc.weighted_users[i].user
             /\ CumulativeWeight(i) >= calc.rand_val
             /\ CumulativeWeight(i - 1) < calc.rand_val \/ i = 1

\* the draw equals the cumulative weight of the first of two candidates
\* and the first is returned; the second would be returned for any
\* greater draw
C24_Witness ==
    /\ calc.fn = "find_next_catcher_weighted"
    /\ Len(calc.weighted_users) = 2
    /\ calc.rand_val = calc.weighted_users[1].weight
    /\ calc.result = calc.weighted_users[1].user
    /\ calc.weighted_users[2].weight > 0

\* The number of delivery attempts in the trace
Attempts == Cardinality({ k \in 1 .. Len(calc.trace) :
                             calc.trace[k].op = "post" })

\* C27: a delivery that gets as far as the webhook makes at most
\* max_retries (3) attempts, retries only after a 5xx response or a
\* timeout, waits initial_delay * 2^k after failed attempt k (k from 0)
\* and not after the last attempt, stops at the first 200, and always
\* ends with a boolean.
C27_BoundedBackoff ==
    (/\ calc.fn = "trigger_slack"
     /\ calc.mail # NULL /\ ~calc.dry_run /\ calc.webhook_url # NULL)
        => LET n == Attempts
           IN  /\ calc.result \in BOOLEAN
               /\ n \in 1 .. 3
               /\ Len(calc.trace) = 2 * n - 1
               /\ \A k \in 1 .. n :
                     calc.trace[2 * k - 1] = Posted(calc.responses[k])
               /\ \A k \in 1 .. (n - 1) :
                     /\ calc.responses[k] \in {"5xx", "timeout"}
                     /\ calc.trace[2 * k].op = "sleep"
                     /\ calc.trace[2 * k].seconds = 2 * 2 ^ (k - 1)
               /\ calc.result <=> calc.responses[n] = "200"
               /\ calc.responses[n] \in {"5xx", "timeout"} => n = 3

\* three failed attempts with waits of 2 and 4 seconds between them and
\* none after the third
C27_Witness ==
    /\ calc.fn = "trigger_slack"
    /\ calc.mail # NULL /\ ~calc.dry_run /\ calc.webhook_url # NULL
    /\ ~calc.result
    /\ calc.trace = << Posted("5xx"), Slept(2), Posted("timeout"), Slept(4),
                       Posted("5xx") >>

\* The invocation has returned from a new selection that was recorded
MadeNewSelection(p) ==
    /\ pc[p] \in {"main", "notify", "done"}
    /\ loc[p].outcome = "new"
    /\ ~loc[p].dry_run

\* The records of the horizon of CLEANUP_RETENTION_DAYS days
WithinRetention(r) ==
    Strptime(r.selected_date) >= today - CLEANUP_RETENTION_DAYS

\* What the store may look like after the new selection of invocation p:
\* the records it started with, in their order and as they were, less
\* some that are older than the retention horizon, then the one new
\* record; last_chosen changed for the selected person alone
NewSelectionFrame(p) ==
    LET u == UserOfMail(loc[p].mail)
        n == Len(history)
        kept == SubSeq(history, 1, n - 1)
    IN  /\ n >= 1
        /\ history[n] = [user_id |-> u, selected_date |-> IsoFormat(today)]
        /\ kept = SelectSeq(pre[p].history, LAMBDA r :
                      \E i \in 1 .. (n - 1) : history[i] = r)
        /\ \A i \in 1 .. Len(pre[p].history) :
              WithinRetention(pre[p].history[i]) =>
                  \E j \in 1 .. (n - 1) : history[j] = pre[p].history[i]
        /\ last_chosen[u] = IsoFormat(today)
        /\ \A v \in Users \ {u} : last_chosen[v] = pre[p].last_chosen[v]

\* A step of a run writes nothing but the store of selections, and a run
\* that has made a new selection has left the store within its frame
C28_FrameStep ==
    /\ (\E p \in Procs : Active(p)) =>
          /\ weekdays' = weekdays
          /\ vacation' = vacation
          /\ DOMAIN last_chosen' = DOMAIN last_chosen
    /\ \A p \in Procs : MadeNewSelection(p) => NewSelectionFrame(p)

\* C28: a run that makes a new selection appends one record (selected
\* person, today) and sets that person's last-chosen date to today, and
\* writes nothing else: no existing record is modified, none within the
\* retention horizon is removed, no other person's fields change, no
\* person is created or deleted, no vacation range is written.
C28_NewSelectionFrame == [][C28_FrameStep]_vars

\* a new selection whose run also pruned: the store has the new record
\* and no more records than before
C28_Witness ==
    \E p \in Procs :
        /\ pc[p] = "done"
        /\ MadeNewSelection(p)
        /\ pre[p].history # << >>
        /\ Len(history) <= Len(pre[p].history)

\* Invocation p was started after a notification for today failed
StartedAfterFailure(p) ==
    /\ calc.fn = "main"
    /\ calc.date = today
    /\ runs > calc.run
    /\ Active(p)

\* C29: once a run has recorded a new selection for a date and its
\* notification has failed, no later run on that date attempts a
\* notification: a later run that gets to the lookup finds the record
\* and returns it as a reused selection, so the one failed notification
\* stays the only one for the date.
C29_NoRetryAfterFailedNotification ==
    \A p \in Procs :
        StartedAfterFailure(p) =>
            /\ ~Notified(p)
            /\ loc[p].outcome \notin {"new", "none"}
            /\ loc[p].outcome = "existing" =>
                  /\ loc[p].mail = calc.mail
                  /\ ~loc[p].is_new_selection
            /\ Len(SelectSeq(notifs, LAMBDA n : n.date = calc.date)) = 1
            /\ \E i \in 1 .. Len(history) :
                  history[i] = [user_id |-> UserOfMail(calc.mail),
                                selected_date |-> IsoFormat(calc.date)]

\* a second run on the day of the failed notification has returned the
\* recorded person
C29_Witness ==
    \E p \in Procs :
        /\ StartedAfterFailure(p)
        /\ pc[p] = "done"
        /\ ~loc[p].dry_run
        /\ loc[p].outcome = "existing"

\* The dates of the records of person u
RecordDates(u) ==
    { Strptime(history[i].selected_date) :
        i \in { k \in 1 .. Len(history) : history[k].user_id = u } }

\* C30: the last-chosen date of every person is on or after the date of
\* each of that person's records, through daily runs on non-decreasing
\* dates and prunes; and right after a new selection the last-chosen date
\* of the selected person is the date of that person's newest record.
C30_LastChosenCoversHistory ==
    /\ \A u \in Users :
          RecordDates(u) # {} =>
              /\ last_chosen[u] # NoDate
              /\ \A d \in RecordDates(u) : Strptime(last_chosen[u]) >= d
    /\ \A p \in Procs :
          MadeNewSelection(p) =>
              LET u == UserOfMail(loc[p].mail)
              IN  /\ RecordDates(u) # {}
                  /\ last_chosen[u] # NoDate
                  /\ Strptime(last_chosen[u]) \in RecordDates(u)
                  /\ \A d \in RecordDates(u) : d <= Strptime(last_chosen[u])

\* a new selection after a prune took the only record of another person,
\* whose last-chosen date stays without a record
C30_Witness ==
    \E p \in Procs, v \in Users :
        /\ pc[p] = "done"
        /\ MadeNewSelection(p)
        /\ v # UserOfMail(loc[p].mail)
        /\ last_chosen[v] # NoDate
        /\ RecordDates(v) = {}

====
